---- MODULE Spec2Model ----
(***************************************************************************)
(* Model of backend/app.py: the exercise recommendation engine             *)
(* (ExerciseRecommendationEngine), its catalog loader and the Flask        *)
(* request handlers /recommendations and /stretching.                      *)
(***************************************************************************)
EXTENDS Integers, Sequences, FiniteSets, TLC

(***************************************************************************)
(* Python floats are IEEE-754 binary64.  The scoring code adds and         *)
(* multiplies decimal literals (0.4, 0.3, 0.1, ...) that are not exact in  *)
(* binary, compares the unrounded sum with the thresholds and returns      *)
(* round(score, 2).  The arithmetic is modelled bit-exactly: a float is    *)
(* [m, e] with value m * 2^e, m a natural number of exactly Precision bits *)
(* (or zero), kept as a little-endian sequence of LimbBits-bit limbs       *)
(* because the model checker's integers are 32 bits wide.                  *)
(***************************************************************************)
LimbBits == 15
Precision == 53
Base == 2 ^ LimbBits

RECURSIVE BigNorm(_)
BigNorm(a) ==
    IF a = <<>> THEN <<>>
    ELSE IF a[Len(a)] = 0 THEN BigNorm(SubSeq(a, 1, Len(a) - 1))
    ELSE a

RECURSIVE BigFromInt(_)
BigFromInt(n) ==
    IF n = 0 THEN <<>> ELSE <<n % Base>> \o BigFromInt(n \div Base)

RECURSIVE BigAddC(_, _, _)
BigAddC(a, b, c) ==
    IF a = <<>> /\ b = <<>> THEN (IF c = 0 THEN <<>> ELSE <<c>>)
    ELSE LET x == IF a = <<>> THEN 0 ELSE Head(a)
             y == IF b = <<>> THEN 0 ELSE Head(b)
             s == x + y + c
         IN  <<s % Base>> \o BigAddC(IF a = <<>> THEN <<>> ELSE Tail(a),
                                     IF b = <<>> THEN <<>> ELSE Tail(b),
                                     s \div Base)

BigAdd(a, b) == BigNorm(BigAddC(a, b, 0))

RECURSIVE BigMulSmallC(_, _, _)
BigMulSmallC(a, k, c) ==
    IF a = <<>> THEN BigFromInt(c)
    ELSE LET p == Head(a) * k + c
         IN  <<p % Base>> \o BigMulSmallC(Tail(a), k, p \div Base)

\* a * k for 0 <= k <= Base
BigMulSmall(a, k) == BigNorm(BigMulSmallC(a, k, 0))

RECURSIVE BigMul(_, _)
BigMul(a, b) ==
    IF b = <<>> \/ a = <<>> THEN <<>>
    ELSE BigAdd(BigMulSmall(a, Head(b)), BigNorm(<<0>> \o BigMul(a, Tail(b))))

\* quotient and remainder of a by d, 0 < d <= Base
RECURSIVE BigDivRem(_, _)
BigDivRem(a, d) ==
    IF a = <<>> THEN [q |-> <<>>, r |-> 0]
    ELSE LET hi  == BigDivRem(Tail(a), d)
             cur == hi.r * Base + Head(a)
         IN  [q |-> <<cur \div d>> \o hi.q, r |-> cur % d]

Zeros(n) == [i \in 1..n |-> 0]

\* a * 2^n
BigShl(a, n) ==
    IF a = <<>> THEN <<>>
    ELSE Zeros(n \div LimbBits) \o BigMulSmall(a, 2 ^ (n % LimbBits))

\* floor(a / 2^n)
BigShr(a, n) ==
    LET k == n \div LimbBits
    IN  IF k >= Len(a) THEN <<>>
        ELSE BigNorm(BigDivRem(SubSeq(a, k + 1, Len(a)), 2 ^ (n % LimbBits)).q)

\* a mod 2^n
BigLow(a, n) ==
    LET k == n \div LimbBits
    IN  IF k >= Len(a) THEN a
        ELSE BigNorm(SubSeq(a, 1, k) \o <<a[k + 1] % (2 ^ (n % LimbBits))>>)

\* -1, 0, 1 as a < b, a = b, a > b (both normalised)
RECURSIVE BigCmp(_, _)
BigCmp(a, b) ==
    IF Len(a) # Len(b) THEN (IF Len(a) < Len(b) THEN -1 ELSE 1)
    ELSE IF a = <<>> THEN 0
    ELSE LET n == Len(a)
         IN  IF a[n] # b[n] THEN (IF a[n] < b[n] THEN -1 ELSE 1)
             ELSE BigCmp(SubSeq(a, 1, n - 1), SubSeq(b, 1, n - 1))

\* number of significant bits of a (normalised)
BigBitLen(a) ==
    IF a = <<>> THEN 0
    ELSE (Len(a) - 1) * LimbBits
         + (CHOOSE k \in 1..LimbBits : 2 ^ (k - 1) <= a[Len(a)] /\ a[Len(a)] < 2 ^ k)

BigIsOdd(a) == a # <<>> /\ a[1] % 2 = 1

\* a / 2^n rounded to the nearest integer, ties to even
BigShrRound(a, n) ==
    IF n = 0 THEN a
    ELSE LET q    == BigShr(a, n)
             half == BigCmp(BigLow(a, n), BigShl(<<1>>, n - 1))
         IN  IF half > 0 \/ (half = 0 /\ BigIsOdd(q)) THEN BigAdd(q, <<1>>) ELSE q

FZero == [m |-> <<>>, e |-> 0]

\* the binary64 nearest to a * 2^e (round to nearest, ties to even)
FRound(a, e) ==
    LET L == BigBitLen(a)
    IN  IF L = 0 THEN FZero
        ELSE IF L <= Precision
             THEN [m |-> BigShl(a, Precision - L), e |-> e - (Precision - L)]
        ELSE LET q == BigShrRound(a, L - Precision)
             IN  IF BigBitLen(q) > Precision
                 THEN [m |-> BigShr(q, 1), e |-> e + (L - Precision) + 1]
                 ELSE [m |-> q, e |-> e + (L - Precision)]

\* the float a decimal literal num/den denotes (den <= Base), e.g. 0.4 = Lit(4, 10)
Lit(num, den) ==
    LET d == BigDivRem(BigShl(BigFromInt(num), 4 * LimbBits + Precision), den)
        q == BigNorm(d.q)
    IN  FRound(BigAdd(BigShl(q, 1), IF d.r = 0 THEN <<>> ELSE <<1>>),
               0 - (4 * LimbBits + Precision + 1))

FMul(x, y) == FRound(BigMul(x.m, y.m), x.e + y.e)

FAdd(x, y) ==
    LET e == IF x.e < y.e THEN x.e ELSE y.e
    IN  FRound(BigAdd(BigShl(x.m, x.e - e), BigShl(y.m, y.e - e)), e)

\* x >= y
FGe(x, y) ==
    LET e == IF x.e < y.e THEN x.e ELSE y.e
    IN  BigCmp(BigShl(x.m, x.e - e), BigShl(y.m, y.e - e)) >= 0

FMin(x, y) == IF FGe(x, y) THEN y ELSE x

\* float(n) for a small natural number n
FFromInt(n) == FRound(BigFromInt(n), 0)

\* the value of a small big number as an integer
RECURSIVE BigToInt(_)
BigToInt(a) == IF a = <<>> THEN 0 ELSE Head(a) + Base * BigToInt(Tail(a))

\* the number of hundredths nearest to x (0 <= x < 2^16): what round(x, 2)
\* keeps before it converts the decimal back to a float
Hundredths(x) ==
    IF x.m = <<>> THEN 0
    ELSE IF x.e >= 0 THEN BigToInt(BigShl(BigMulSmall(x.m, 100), x.e))
    ELSE BigToInt(BigShrRound(BigMulSmall(x.m, 100), 0 - x.e))

\* round(x, 2)
Round2(x) == Lit(Hundredths(x), 100)


(***************************************************************************)
(* Python values.  None is a value of its own; a str is a TLA+ string.     *)
(* str.lower() and the substring test `w in s` work on characters.         *)
(***************************************************************************)
None == "<None>"

\* Python truthiness of an Optional[str]
Truthy(v) == v # None /\ v # ""

UpperChars == "ABCDEFGHIJKLMNOPQRSTUVWXYZ"
LowerChars == "abcdefghijklmnopqrstuvwxyz"

UpperSet == {SubSeq(UpperChars, i, i) : i \in 1..Len(UpperChars)}

LowerChar(c) ==
    IF c \in UpperSet
    THEN LET i == CHOOSE j \in 1..Len(UpperChars) : SubSeq(UpperChars, j, j) = c
         IN  SubSeq(LowerChars, i, i)
    ELSE c

\* s.lower()
RECURSIVE Lower(_)
Lower(s) ==
    IF Len(s) = 0 THEN ""
    ELSE LowerChar(SubSeq(s, 1, 1)) \o Lower(SubSeq(s, 2, Len(s)))

\* w in s  (substring)
Contains(s, w) ==
    \E i \in 1..(Len(s) - Len(w) + 1) : SubSeq(s, i, i + Len(w) - 1) = w

\* any(word in s for word in words)
AnyIn(s, words) == \E w \in words : Contains(s, w)

\* str(n) of a natural number, and f"{n}"
Str(n) == ToString(n)

(***************************************************************************)
(* filter_pt_relevant: the loop body, and the whole loop over one list.    *)
(***************************************************************************)
pt_categories ==
    {"strength", "stretching", "cardio", "plyometrics",
     "strongman", "olympic weightlifting", "powerlifting"}

pt_equipment ==
    {"body only", "dumbbell", "resistance band", "foam roll",
     "stability ball", "medicine ball", "kettlebell", "barbell",
     "cable", "e-z curl bar", "other"}

excluded_equipment ==
    {"machine", "leverage machine", "sled machine", "stepmill machine"}

\* the category gate of one loop iteration: TRUE when the exercise goes on
CategoryGate(ex) ==
    ~(Truthy(ex.category) /\ Lower(ex.category) \notin pt_categories)

\* the equipment gate of one loop iteration
EquipmentGate(ex) ==
    IF Truthy(ex.equipment)
    THEN /\ Lower(ex.equipment) \notin excluded_equipment
         /\ Lower(ex.equipment) \in pt_equipment
    ELSE TRUE

\* TRUE when the loop body appends ex to filtered
PtRelevant(ex) == CategoryGate(ex) /\ EquipmentGate(ex)

filter_pt_relevant(exs) == SelectSeq(exs, PtRelevant)

(***************************************************************************)
(* calculate_intensity                                                     *)
(***************************************************************************)
level_map(level) ==
    CASE level = "beginner"     -> "low"
      [] level = "intermediate" -> "moderate"
      [] level = "advanced"     -> "high"
      [] level = "expert"       -> "very-high"
      [] OTHER                  -> "moderate"

\* the classifier with every name check ahead of every category check
calculate_intensity_NamesFirst(exercise) ==
    LET name_lower     == Lower(exercise.name)
        category_lower == IF Truthy(exercise.category)
                          THEN Lower(exercise.category) ELSE ""
    IN  IF AnyIn(name_lower, {"jump", "explosive", "plyometric", "sprint", "burpee"})
        THEN "very-high"
        ELSE IF AnyIn(name_lower, {"squat", "deadlift", "press", "pull", "push",
                                   "weight", "heavy"})
        THEN "high"
        ELSE IF AnyIn(name_lower, {"bridge", "plank", "lunge", "step", "walk"})
        THEN "moderate"
        ELSE IF AnyIn(name_lower, {"stretch", "gentle", "slow", "breathing"})
        THEN "low"
        ELSE IF AnyIn(name_lower, {"passive", "rest", "meditation", "mindfulness"})
        THEN "very-low"
        ELSE IF category_lower \in {"strength", "powerlifting"}
        THEN "high"
        ELSE IF category_lower \in {"cardio", "olympic weightlifting"}
        THEN "moderate"
        ELSE IF category_lower \in {"stretching", "flexibility", "mobility"}
        THEN "low"
        ELSE level_map(exercise.level)

calculate_intensity(exercise) ==
    LET name_lower     == Lower(exercise.name)
        category_lower == IF Truthy(exercise.category)
                          THEN Lower(exercise.category) ELSE ""
    IN  IF AnyIn(name_lower, {"jump", "explosive", "plyometric", "sprint", "burpee"})
        THEN "very-high"
        ELSE IF AnyIn(name_lower, {"squat", "deadlift", "press", "pull", "push",
                                   "weight", "heavy"})
        THEN "high"
        ELSE IF category_lower \in {"strength", "powerlifting"}
        THEN "high"
        ELSE IF AnyIn(name_lower, {"bridge", "plank", "lunge", "step", "walk"})
        THEN "moderate"
        ELSE IF category_lower \in {"cardio", "olympic weightlifting"}
        THEN "moderate"
        ELSE IF AnyIn(name_lower, {"stretch", "gentle", "slow", "breathing"})
        THEN "low"
        ELSE IF category_lower \in {"stretching", "flexibility", "mobility"}
        THEN "low"
        ELSE IF AnyIn(name_lower, {"passive", "rest", "meditation", "mindfulness"})
        THEN "very-low"
        ELSE level_map(exercise.level)

(***************************************************************************)
(* get_pain_suitability, get_mobility_suitability                          *)
(***************************************************************************)
Range(lo, hi, opt) == [min |-> lo, max |-> hi, optimal |-> opt]

\* the table with the rows of 'high' and 'low' exchanged
pain_ranges_Swapped(intensity) ==
    CASE intensity = "very-low"  -> Range(8, 10, {9, 10})
      [] intensity = "high"      -> Range(5, 10, {6, 7, 8})
      [] intensity = "moderate"  -> Range(2, 7, {3, 4, 5})
      [] intensity = "low"       -> Range(1, 4, {1, 2, 3})
      [] intensity = "very-high" -> Range(1, 2, {1})
      [] OTHER                   -> Range(1, 10, {5})

pain_ranges(intensity) ==
    CASE intensity = "very-low"  -> Range(8, 10, {9, 10})
      [] intensity = "low"       -> Range(5, 10, {6, 7, 8})
      [] intensity = "moderate"  -> Range(2, 7, {3, 4, 5})
      [] intensity = "high"      -> Range(1, 4, {1, 2, 3})
      [] intensity = "very-high" -> Range(1, 2, {1})
      [] OTHER                   -> Range(1, 10, {5})

get_pain_suitability(exercise, user_pain) ==
    pain_ranges(calculate_intensity(exercise))

mobility_ranges(intensity) ==
    CASE intensity = "very-low"  -> Range(1, 10, {2, 3, 4})
      [] intensity = "low"       -> Range(2, 10, {3, 4, 5})
      [] intensity = "moderate"  -> Range(4, 10, {5, 6, 7})
      [] intensity = "high"      -> Range(6, 10, {7, 8, 9})
      [] intensity = "very-high" -> Range(8, 10, {9, 10})
      [] OTHER                   -> Range(1, 10, {5})

get_mobility_suitability(exercise, user_mobility) ==
    LET category == IF Truthy(exercise.category)
                    THEN Lower(exercise.category) ELSE ""
    IN  IF category \in {"stretching", "mobility", "flexibility"}
        THEN Range(1, 10, {2, 3, 4, 5})
        ELSE IF category = "balance" THEN Range(3, 10, {4, 5, 6, 7})
        ELSE IF category = "strength" THEN Range(4, 10, {5, 6, 7, 8})
        ELSE IF category = "cardio" THEN Range(6, 10, {7, 8, 9, 10})
        ELSE mobility_ranges(calculate_intensity(exercise))

(***************************************************************************)
(* get_therapeutic_benefits                                                *)
(***************************************************************************)
get_therapeutic_benefits(exercise) ==
    LET name_lower == Lower(exercise.name)
        category   == IF Truthy(exercise.category)
                      THEN Lower(exercise.category) ELSE ""
    IN  (IF category = "stretching" \/ Contains(name_lower, "stretch")
         THEN <<"improves flexibility", "reduces muscle tension",
                "increases range of motion">> ELSE <<>>)
     \o (IF category = "mobility" \/ Contains(name_lower, "mobility")
         THEN <<"enhances joint mobility", "improves movement quality",
                "reduces stiffness">> ELSE <<>>)
     \o (IF category = "strength" \/ Contains(name_lower, "strength")
         THEN <<"builds muscle strength", "improves stability",
                "supports joint health">> ELSE <<>>)
     \o (IF category = "balance" \/ Contains(name_lower, "balance")
         THEN <<"improves balance", "enhances proprioception",
                "reduces fall risk">> ELSE <<>>)
     \o (IF category = "cardio" \/ Contains(name_lower, "cardio")
         THEN <<"improves cardiovascular health", "increases endurance",
                "boosts energy">> ELSE <<>>)
     \o (IF Contains(name_lower, "gentle") \/ Contains(name_lower, "soft")
         THEN <<"pain relief", "muscle relaxation", "stress reduction">>
         ELSE <<>>)

(***************************************************************************)
(* calculate_recommendation_score.  Each of the four parts yields its      *)
(* sub-score and the reasons and warnings it appends.                      *)
(***************************************************************************)
F0_0 == Lit(0, 1)
F0_1 == Lit(1, 10)
F0_2 == Lit(2, 10)
F0_3 == Lit(3, 10)
F0_4 == Lit(4, 10)
F0_5 == Lit(5, 10)
F0_7 == Lit(7, 10)
F0_8 == Lit(8, 10)
F0_9 == Lit(9, 10)
F1_0 == Lit(1, 1)

Part(score, reasons, warnings) ==
    [score |-> score, reasons |-> reasons, warnings |-> warnings]

\* lines 248-259
PainPart(exercise, user) ==
    LET pain_suitability == get_pain_suitability(exercise, user.pain_level)
        suitable == "Suitable for your pain level (" \o Str(user.pain_level) \o "/10)"
    IN  IF pain_suitability.min <= user.pain_level
           /\ user.pain_level <= pain_suitability.max
        THEN IF user.pain_level \in pain_suitability.optimal
             THEN Part(F1_0, <<suitable, "Optimal for your current pain level">>, <<>>)
             ELSE Part(F0_8, <<suitable>>, <<>>)
        ELSE Part(F0_1, <<>>,
                  <<"May not be suitable for your pain level ("
                    \o Str(user.pain_level) \o "/10)">>)

\* lines 263-274
MobilityPart(exercise, user) ==
    LET mobility_suitability == get_mobility_suitability(exercise, user.mobility_level)
        appropriate == "Appropriate for your mobility level ("
                       \o Str(user.mobility_level) \o "/10)"
    IN  IF mobility_suitability.min <= user.mobility_level
           /\ user.mobility_level <= mobility_suitability.max
        THEN IF user.mobility_level \in mobility_suitability.optimal
             THEN Part(F1_0, <<appropriate, "Perfect match for your mobility level">>, <<>>)
             ELSE Part(F0_8, <<appropriate>>, <<>>)
        ELSE Part(F0_1, <<>>,
                  <<"May be too challenging for your mobility level ("
                    \o Str(user.mobility_level) \o "/10)">>)

\* lines 278-287
ConditionPart(exercise, user) ==
    LET condition_lower == Lower(user.condition)
        all_muscles     == exercise.primaryMuscles \o exercise.secondaryMuscles
    IN  IF \E i \in 1..Len(all_muscles) :
               \/ Contains(Lower(all_muscles[i]), condition_lower)
               \/ Contains(condition_lower, Lower(all_muscles[i]))
        THEN Part(F1_0, <<"Specifically targets your " \o user.condition
                          \o " condition">>, <<>>)
        ELSE Part(F0_5, <<>>, <<>>)

\* the benefit sub-score without its cap of 1.0
BenefitPart_NoCap(exercise) ==
    LET n == Len(get_therapeutic_benefits(exercise))
    IN  Part(FMul(FFromInt(n), F0_2),
             IF n > 0
             THEN <<"Provides " \o Str(n) \o " therapeutic benefit"
                    \o (IF n > 1 THEN "s" ELSE "")>>
             ELSE <<>>,
             <<>>)

\* lines 291-295
BenefitPart(exercise) ==
    LET n == Len(get_therapeutic_benefits(exercise))
    IN  Part(FMin(FMul(FFromInt(n), F0_2), F1_0),
             IF n > 0
             THEN <<"Provides " \o Str(n) \o " therapeutic benefit"
                    \o (IF n > 1 THEN "s" ELSE "")>>
             ELSE <<>>,
             <<>>)

\* lines 246, 261, 276, 289, 297: the running sum, before it is rounded
RawScore(pain, mobility, condition, benefit) ==
    FAdd(FAdd(FAdd(FAdd(F0_0, FMul(pain, F0_4)),
                   FMul(mobility, F0_3)),
              FMul(condition, F0_2)),
         FMul(benefit, F0_1))

\* the thresholds with 'poor' folded into 'contraindicated'
Suitability_NoPoor(score) ==
    IF FGe(score, F0_9) THEN "excellent"
    ELSE IF FGe(score, F0_7) THEN "good"
    ELSE IF FGe(score, F0_5) THEN "moderate"
    ELSE "contraindicated"

\* lines 299-309
Suitability(score) ==
    IF FGe(score, F0_9) THEN "excellent"
    ELSE IF FGe(score, F0_7) THEN "good"
    ELSE IF FGe(score, F0_5) THEN "moderate"
    ELSE IF FGe(score, F0_3) THEN "poor"
    ELSE "contraindicated"

calculate_recommendation_score(exercise, user) ==
    LET pain      == PainPart(exercise, user)
        mobility  == MobilityPart(exercise, user)
        condition == ConditionPart(exercise, user)
        benefit   == BenefitPart(exercise)
        score     == RawScore(pain.score, mobility.score, condition.score,
                              benefit.score)
    IN  [exercise    |-> exercise,
         score       |-> Round2(score),
         reasons     |-> pain.reasons \o mobility.reasons \o condition.reasons
                         \o benefit.reasons,
         warnings    |-> pain.warnings \o mobility.warnings,
         suitability |-> Suitability(score)]

(***************************************************************************)
(* The dataclasses Exercise and UserProfile.                               *)
(***************************************************************************)
Exercise(id, name, force, level, mechanic, equipment, primaryMuscles, secondaryMuscles, instructions, category, images) ==
    [id |-> id, name |-> name, force |-> force, level |-> level,
     mechanic |-> mechanic, equipment |-> equipment,
     primaryMuscles |-> primaryMuscles, secondaryMuscles |-> secondaryMuscles,
     instructions |-> instructions, category |-> category, images |-> images]

UserProfile(pain_level, mobility_level, condition, goals) ==
    [pain_level |-> pain_level, mobility_level |-> mobility_level,
     condition |-> condition, goals |-> goals]

\* the 1-10 scale of pain_level and mobility_level
MinLevel == 1
MaxLevel == 10

VARIABLES
    heap,              \* the list objects alive: list id -> its items
    exercises,         \* engine.exercises: the id of the list it refers to
    exercise_vectors,  \* engine.exercise_vectors: the texts it was fitted on
    loader,            \* the thread running engine.load_exercises()
    req,               \* the thread serving a request
    call               \* a direct call of calculate_recommendation_score

vars == <<heap, exercises, exercise_vectors, loader, req, call>>

(***************************************************************************)
(* get_recommendations and get_stretching_recommendations, from the list   *)
(* filter_pt_relevant returned to the value they return.                   *)
(***************************************************************************)
\* list.sort(key=lambda x: x.score, reverse=True): stable, so an item goes
\* after every item already placed whose score is >= its own
RECURSIVE InsertByScore(_, _)
InsertByScore(sorted, item) ==
    IF sorted = <<>> THEN <<item>>
    ELSE IF FGe(Head(sorted).score, item.score)
         THEN <<Head(sorted)>> \o InsertByScore(Tail(sorted), item)
         ELSE <<item>> \o sorted

RECURSIVE SortByScore(_)
SortByScore(items) ==
    IF items = <<>> THEN <<>>
    ELSE InsertByScore(SortByScore(SubSeq(items, 1, Len(items) - 1)),
                       items[Len(items)])

\* items[:limit]
Slice(items, limit) ==
    IF limit >= 0
    THEN SubSeq(items, 1, IF limit < Len(items) THEN limit ELSE Len(items))
    ELSE SubSeq(items, 1, Len(items) + limit)

\* lines 353-357 and 387-391
ScoreAll(pt_exercises, user) ==
    [i \in 1..Len(pt_exercises) |->
        calculate_recommendation_score(pt_exercises[i], user)]

\* lines 359-360 and 394
IsSafe(s) == s.suitability # "contraindicated"

\* the list comprehension without its condition
SafeOnly_NoFilter(scored_exercises) == scored_exercises

SafeOnly(scored_exercises) == SelectSeq(scored_exercises, IsSafe)

\* lines 376-383
IsStretching(ex) ==
    LET category   == IF Truthy(ex.category) THEN Lower(ex.category) ELSE ""
        name_lower == Lower(ex.name)
    IN  \/ category \in {"stretching", "flexibility", "mobility"}
        \/ Contains(name_lower, "stretch")

\* the exercises each entry point scores: all that filter_pt_relevant
\* returned (line 355), or the stretching ones among them (lines 376-383)
Candidates(route, pt_exercises) ==
    IF route = "/recommendations" THEN pt_exercises
    ELSE SelectSeq(pt_exercises, IsStretching)

\* lines 359-367 and 394-397: what either entry point returns
TopRecommendations(scored_exercises, limit) ==
    Slice(SortByScore(SafeOnly(scored_exercises)), limit)

(***************************************************************************)
(* JSON values.  A raw catalog entry is a dict or some other JSON value; a *)
(* request field is a number or a string.                                  *)
(***************************************************************************)
Dict(items) == [type |-> "dict", items |-> items]
NotADict(type, value) == [type |-> type, value |-> value]

\* d.get(key, default)
Get(d, key, default) == IF key \in DOMAIN d THEN d[key] ELSE default

JInt(n) == [int |-> n]
JStr(s) == [str |-> s]

Digits == "0123456789"

IsDigit(c) == \E i \in 1..Len(Digits) : SubSeq(Digits, i, i) = c

DigitValue(c) == (CHOOSE i \in 1..Len(Digits) : SubSeq(Digits, i, i) = c) - 1

IsDigits(s) ==
    Len(s) > 0 /\ \A i \in 1..Len(s) : IsDigit(SubSeq(s, i, i))

RECURSIVE DigitsValue(_)
DigitsValue(s) ==
    IF Len(s) = 0 THEN 0
    ELSE 10 * DigitsValue(SubSeq(s, 1, Len(s) - 1))
         + DigitValue(SubSeq(s, Len(s), Len(s)))

\* int(v) raises ValueError (v is a string that is no decimal integer)
IntRaises(v) ==
    /\ "str" \in DOMAIN v
    /\ ~ IsDigits(v.str)
    /\ ~ (Len(v.str) > 1 /\ SubSeq(v.str, 1, 1) = "-"
          /\ IsDigits(SubSeq(v.str, 2, Len(v.str))))

\* int(v) when it does not raise
ToInt(v) ==
    IF "int" \in DOMAIN v THEN v.int
    ELSE IF SubSeq(v.str, 1, 1) = "-"
         THEN 0 - DigitsValue(SubSeq(v.str, 2, Len(v.str)))
         ELSE DigitsValue(v.str)

(***************************************************************************)
(* load_exercises: one iteration of its loop over raw_exercises.           *)
(***************************************************************************)
\* lines 76-88: the Exercise built from a dict that holds 'id' and 'name'
\* (the ids of the catalog are strings, which str() returns as they are)
ParseExercise(ex) ==
    Exercise(ex["id"], ex["name"], Get(ex, "force", None),
             Get(ex, "level", "beginner"), Get(ex, "mechanic", None),
             Get(ex, "equipment", None), Get(ex, "primaryMuscles", <<>>),
             Get(ex, "secondaryMuscles", <<>>), Get(ex, "instructions", <<>>),
             Get(ex, "category", "general"), Get(ex, "images", <<>>))

\* what the try block of one iteration (lines 75-92) ends in:
\*   "append"  the Exercise is built and appended
\*   "skip"    ex['id'] or ex['name'] raised KeyError; the handler logs a
\*             warning with ex.get('id', 'unknown') and continues
\*   "raise"   ex is no dict: ex['id'] raised TypeError and the handler's own
\*             ex.get(...) raises AttributeError, which leaves the loop
EntryOutcome(ex) ==
    IF ex.type # "dict" THEN "raise"
    ELSE IF "id" \notin DOMAIN ex.items \/ "name" \notin DOMAIN ex.items THEN "skip"
    ELSE "append"

\* the warning line 91 logs
ParseWarning(ex) ==
    "Failed to parse exercise " \o Get(ex.items, "id", "unknown") \o ": '"
    \o (IF "id" \notin DOMAIN ex.items THEN "id" ELSE "name") \o "'"

(***************************************************************************)
(* The engine and its threads.                                             *)
(*                                                                         *)
(* engine.exercises refers to a list object; `self.exercises = []` makes   *)
(* it refer to a new one, and a `for ex in self.exercises` loop that       *)
(* started before keeps the object it started on.  heap maps the ids of    *)
(* the list objects something still refers to to their items; with each    *)
(* list it keeps `whole`: whether the loop that fills it has handled every *)
(* raw entry (history only: no action reads it to decide what to do).      *)
(***************************************************************************)
List(items, whole) == [items |-> items, whole |-> whole]

Idle == [pc |-> "idle"]

\* how often load_exercises is called again after the engine is constructed
MaxReloads == 1

\* the ids in use once the request thread is r and the engine's list is e
Live(r, e) == {e} \cup (IF r.pc \in {"filter", "count"} THEN {r.ref} ELSE {})

\* an id nothing refers to
NewId(used) == CHOOSE n \in 1..(Cardinality(used) + 1) : n \notin used

\* the heap without the lists nothing refers to any more
Collect(h, r, e) == [id \in Live(r, e) \cap DOMAIN h |-> h[id]]

\* _prepare_vectors, lines 101-118: one text per exercise, noted by its id
\* (the vectorizer is a library; its fit is taken to succeed)
PrepareVectors(exs) == [i \in 1..Len(exs) |-> exs[i].id]

\* the whole loop of load_exercises on raw, when no entry makes it raise
RECURSIVE LoadAll(_)
LoadAll(raw) ==
    IF raw = <<>> THEN <<>>
    ELSE LET init == LoadAll(SubSeq(raw, 1, Len(raw) - 1))
             ex   == raw[Len(raw)]
         IN  IF EntryOutcome(ex) = "append"
             THEN Append(init, ParseExercise(ex.items)) ELSE init

RECURSIVE LoadWarnings(_)
LoadWarnings(raw) ==
    IF raw = <<>> THEN <<>>
    ELSE LET init == LoadWarnings(SubSeq(raw, 1, Len(raw) - 1))
             ex   == raw[Len(raw)]
         IN  IF EntryOutcome(ex) = "skip"
             THEN Append(init, ParseWarning(ex)) ELSE init

LoadRaises(raw) == \E i \in 1..Len(raw) : EntryOutcome(raw[i]) = "raise"

\* The state once ExerciseRecommendationEngine() has returned (line 400):
\* __init__ ran load_exercises on raw and it did not raise.
Constructed(raw) ==
    /\ ~ LoadRaises(raw)
    /\ heap = (1 :> List(LoadAll(raw), TRUE))
    /\ exercises = 1
    /\ exercise_vectors = PrepareVectors(LoadAll(raw))
    /\ loader = [pc |-> "done", raw |-> raw, i |-> Len(raw) + 1,
                 warnings |-> LoadWarnings(raw), calls |-> 0]
    /\ req = Idle
    /\ call = [op |-> "none"]

\* load_exercises is called again, lines 64-73: the catalog is fetched and
\* self.exercises is made a new, empty list
LoadStart(raws) ==
    /\ loader.pc \in {"done", "failed"}
    /\ loader.calls < MaxReloads
    /\ \E raw \in raws :
        LET id == NewId(Live(req, exercises))
        IN  /\ heap' = Collect(heap, req, id) @@ (id :> List(<<>>, raw = <<>>))
            /\ exercises' = id
            /\ loader' = [pc |-> "loop", raw |-> raw, i |-> 1, warnings |-> <<>>,
                          calls |-> loader.calls + 1]
    /\ UNCHANGED <<exercise_vectors, req, call>>

\* lines 66-67 raise (the request fails): nothing was touched yet
LoadFetchFails ==
    /\ loader.pc \in {"done", "failed"}
    /\ loader.calls < MaxReloads
    /\ loader' = [pc |-> "failed", raw |-> <<>>, i |-> 1, warnings |-> <<>>,
                  calls |-> loader.calls + 1, error |-> "fetch"]
    /\ UNCHANGED <<heap, exercises, exercise_vectors, req, call>>

\* one iteration of the loop, lines 74-92
LoadEntry ==
    /\ loader.pc = "loop"
    /\ loader.i <= Len(loader.raw)
    /\ LET ex      == loader.raw[loader.i]
           outcome == EntryOutcome(ex)
       IN  /\ heap' = [heap EXCEPT ![exercises] =
                          List(IF outcome = "append"
                               THEN Append(@.items, ParseExercise(ex.items))
                               ELSE @.items,
                               outcome # "raise" /\ loader.i = Len(loader.raw))]
           /\ loader' =
                CASE outcome = "append" -> [loader EXCEPT !.i = @ + 1]
                  [] outcome = "skip"   ->
                        [loader EXCEPT !.i = @ + 1,
                                       !.warnings = Append(@, ParseWarning(ex))]
                  [] outcome = "raise"  ->
                        [loader EXCEPT !.pc = "failed"] @@ [error |-> "entry"]
    /\ UNCHANGED <<exercises, exercise_vectors, req, call>>

\* the loop is over, lines 94-95
LoadFinish ==
    /\ loader.pc = "loop"
    /\ loader.i > Len(loader.raw)
    /\ exercise_vectors' = PrepareVectors(heap[exercises].items)
    /\ loader' = [loader EXCEPT !.pc = "done"]
    /\ UNCHANGED <<heap, exercises, req, call>>

(***************************************************************************)
(* The request handlers, lines 411-506.                                    *)
(***************************************************************************)
required_fields == <<"pain_level", "mobility_level", "condition">>

MissingFields(data) ==
    SelectSeq(required_fields, LAMBDA f : f \notin DOMAIN data)

ErrorResponse(status, error) == [status |-> status, error |-> error]

\* lines 415-436 and 467-481: the error response the handler returns before
\* it calls the engine, or Idle when it goes on to call it
Rejection(route, data) ==
    IF MissingFields(data) # <<>>
    THEN ErrorResponse(400, "Missing required field: " \o Head(MissingFields(data)))
    ELSE IF IntRaises(data.pain_level) \/ IntRaises(data.mobility_level)
    THEN ErrorResponse(500, "invalid literal for int()")
    ELSE IF route = "/recommendations"
            /\ ~ (MinLevel <= ToInt(data.pain_level)
                  /\ ToInt(data.pain_level) <= MaxLevel)
    THEN ErrorResponse(400, "Pain level must be between 1 and 10")
    ELSE IF route = "/recommendations"
            /\ ~ (MinLevel <= ToInt(data.mobility_level)
                  /\ ToInt(data.mobility_level) <= MaxLevel)
    THEN ErrorResponse(400, "Mobility level must be between 1 and 10")
    ELSE Idle

DefaultLimit(route) == IF route = "/recommendations" THEN 10 ELSE 8

\* A request arrives.  It is answered with an error, or the engine is called
\* and filter_pt_relevant starts its loop over the list self.exercises
\* refers to now (line 142).
Receive(routes, datas) ==
    /\ req.pc = "idle"
    /\ \E route \in routes, data \in datas :
        IF Rejection(route, data) # Idle
        THEN req' = [pc |-> "done", route |-> route, data |-> data,
                     response |-> Rejection(route, data)]
        ELSE req' = [pc |-> "filter", route |-> route, data |-> data,
                     user |-> UserProfile(ToInt(data.pain_level),
                                          ToInt(data.mobility_level),
                                          data.condition,
                                          Get(data, "goals", <<>>)),
                     limit |-> Get(data, "limit", DefaultLimit(route)),
                     ref |-> exercises, idx |-> 0, filtered |-> <<>>]
    /\ UNCHANGED <<heap, exercises, exercise_vectors, loader, call>>

\* one iteration of the loop of filter_pt_relevant, lines 142-154
FilterStep ==
    /\ req.pc \in {"filter", "count"}
    /\ req.idx < Len(heap[req.ref].items)
    /\ LET ex == heap[req.ref].items[req.idx + 1]
       IN  req' = [req EXCEPT !.idx = @ + 1,
                              !.filtered = IF PtRelevant(ex) THEN Append(@, ex) ELSE @]
    /\ UNCHANGED <<heap, exercises, exercise_vectors, loader, call>>

\* The first loop is over: get_recommendations (lines 353-357) or
\* get_stretching_recommendations (lines 376-391) scores the exercises.
ScoreFiltered ==
    /\ req.pc = "filter"
    /\ req.idx >= Len(heap[req.ref].items)
    /\ req' = [req EXCEPT !.pc = "scored"]
              @@ [pt_exercises     |-> req.filtered,
                  whole            |-> heap[req.ref].whole,
                  scored_exercises |-> ScoreAll(Candidates(req.route, req.filtered),
                                                req.user)]
    /\ heap' = Collect(heap, req', exercises)
    /\ UNCHANGED <<exercises, exercise_vectors, loader, call>>

\* The engine drops the contraindicated, sorts and cuts (lines 359-370,
\* 394-397); the handler builds its result, reads len(engine.exercises) and
\* calls filter_pt_relevant again for the counts of its response (lines
\* 442-456, 487-501).
Recommend ==
    /\ req.pc = "scored"
    /\ req' = [req EXCEPT !.pc = "count", !.ref = exercises, !.idx = 0,
                          !.filtered = <<>>]
              @@ [recommendations |-> TopRecommendations(req.scored_exercises,
                                                         req.limit),
                  total_exercises |-> Len(heap[exercises].items)]
    /\ UNCHANGED <<heap, exercises, exercise_vectors, loader, call>>

\* The second loop is over: the handler returns its response.
Respond ==
    /\ req.pc = "count"
    /\ req.idx >= Len(heap[req.ref].items)
    /\ req' = [req EXCEPT !.pc = "done", !.whole = @ /\ heap[req.ref].whole]
              @@ [response |->
                    IF req.route = "/recommendations"
                    THEN [status |-> 200,
                          recommendations |-> req.recommendations,
                          total_exercises |-> req.total_exercises,
                          pt_exercises |-> Len(req.filtered)]
                    ELSE [status |-> 200,
                          recommendations |-> req.recommendations,
                          total_stretching_exercises |->
                              Len(SelectSeq(req.filtered,
                                    LAMBDA ex : Truthy(ex.category)
                                        /\ Lower(ex.category) \in
                                             {"stretching", "flexibility",
                                              "mobility"}))]]
    /\ heap' = Collect(heap, req', exercises)
    /\ UNCHANGED <<exercises, exercise_vectors, loader, call>>

\* The response is sent; the thread waits for the next request.
Return ==
    /\ req.pc = "done"
    /\ req' = Idle
    /\ UNCHANGED <<heap, exercises, exercise_vectors, loader, call>>

(***************************************************************************)
(* calculate_recommendation_score called on its own, on exercises and      *)
(* profiles drawn from bounded sets.                                       *)
(***************************************************************************)
ScoreNames ==
    {"Barbell Back Squat", "Gentle Hamstring Stretch", "Box Jump", "Side Plank",
     "Passive Recovery", "Wall Slide", "Soft Cardio Balance Flow"}

ScoreCategories ==
    {"strength", "stretching", "Stretching", "cardio", "plyometrics", "balance",
     "mobility", "general", None}

ScoreLevels == {"beginner", "intermediate", "advanced", "expert", "novice"}

ScoreMuscles == {<<>>, <<"hamstrings">>}

ScoreExercises ==
    {Exercise("x", n, None, "beginner", None, None, m, <<>>, <<>>, c, <<>>) :
        n \in ScoreNames, c \in ScoreCategories, m \in ScoreMuscles}
    \cup
    {Exercise("x", "Wall Slide", None, l, None, "body only", <<>>, <<"glutes">>,
              <<>>, c, <<>>) :
        l \in ScoreLevels, c \in {"plyometrics", "general"}}

ScoreUsers ==
    {UserProfile(p, m, c, <<>>) :
        p \in MinLevel..MaxLevel, m \in MinLevel..MaxLevel,
        c \in {"hamstring", "knee"}}

\* Init draws the arguments; Score returns from the call
InitScore ==
    /\ heap = <<>>
    /\ exercises = 0
    /\ exercise_vectors = <<>>
    /\ loader = [pc |-> "idle"]
    /\ req = [pc |-> "idle"]
    /\ \E ex \in ScoreExercises, user \in ScoreUsers :
           call = [op |-> "calculate_recommendation_score", pc |-> "called",
                   exercise |-> ex, user |-> user]

Score ==
    /\ call.pc = "called"
    /\ call' = [call EXCEPT !.pc = "returned"] @@
               [result |-> calculate_recommendation_score(call.exercise, call.user)]
    /\ UNCHANGED <<heap, exercises, exercise_vectors, loader, req>>

NextScore == Score

SpecScore == InitScore /\ [][NextScore]_vars


(***************************************************************************)
(* Spec: the engine, one thread that calls load_exercises again, and one   *)
(* thread that serves requests, interleaved.                               *)
(***************************************************************************)
BarbellBackSquat ==
    Dict([id |-> "Barbell_Back_Squat", name |-> "Barbell Back Squat",
          level |-> "intermediate", equipment |-> "barbell",
          category |-> "strength"])

GentleHamstringStretch ==
    Dict([id |-> "Gentle_Hamstring_Stretch", name |-> "Gentle Hamstring Stretch",
          equipment |-> None, category |-> "stretching",
          primaryMuscles |-> <<"hamstrings">>])

NoId == Dict([name |-> "Nameless Raise", category |-> "strength"])

NoName == Dict([id |-> "No_Name", category |-> "strength"])

Corrupt == NotADict("str", "corrupt")

\* the raw catalogs: the entries of a master list, in its order
RECURSIVE SubLists(_)
SubLists(master) ==
    IF master = <<>> THEN {<<>>}
    ELSE LET rest == SubLists(Tail(master))
         IN  rest \cup {<<Head(master)>> \o t : t \in rest}

SubListsUpTo(master, n) == {t \in SubLists(master) : Len(t) <= n}

MaxRaw == 3

Raws ==
    SubListsUpTo(<<BarbellBackSquat, NoId, GentleHamstringStretch, NoName,
                   Corrupt>>, MaxRaw)

Routes == {"/recommendations", "/stretching"}

Requests ==
    {[pain_level |-> JInt(7), mobility_level |-> JInt(4), condition |-> "hamstring"],
     [pain_level |-> JStr("9"), mobility_level |-> JInt(3), condition |-> "knee",
      limit |-> 1],
     [pain_level |-> JInt(11), mobility_level |-> JInt(4), condition |-> "knee"],
     [pain_level |-> JInt(7), mobility_level |-> JInt(0), condition |-> "knee"],
     [pain_level |-> JStr("severe"), mobility_level |-> JInt(4),
      condition |-> "knee"],
     [pain_level |-> JInt(7), mobility_level |-> JInt(4)],
     [mobility_level |-> JInt(4), condition |-> "knee"],
     [pain_level |-> JInt(12), condition |-> "knee"]}

Init == \E raw \in Raws : Constructed(raw)

Next ==
    \/ LoadStart(Raws)
    \/ LoadFetchFails
    \/ LoadEntry
    \/ LoadFinish
    \/ Receive(Routes, Requests)
    \/ FilterStep
    \/ ScoreFiltered
    \/ Recommend
    \/ Respond
    \/ Return

Spec == Init /\ [][Next]_vars

(***************************************************************************)
(* SpecServe: requests served one after another by an engine that is not   *)
(* reloaded, over more catalogs and more requests.                         *)
(***************************************************************************)
GentleCalfStretch ==
    Dict([id |-> "Gentle_Calf_Stretch", name |-> "Gentle Calf Stretch",
          category |-> "stretching", primaryMuscles |-> <<"calves">>])

\* no 'category' in the source record
WallSlide ==
    Dict([id |-> "Wall_Slide", name |-> "Wall Slide", equipment |-> "body only",
          primaryMuscles |-> <<"shoulders">>])

LegPress ==
    Dict([id |-> "Leg_Press", name |-> "Leg Press", equipment |-> "machine",
          category |-> "strength", primaryMuscles |-> <<"quadriceps">>])

\* 'category': null and no 'equipment' in the source record
SeatedTwist ==
    Dict([id |-> "Seated_Twist", name |-> "Seated Twist", category |-> None,
          level |-> "expert", secondaryMuscles |-> <<"abdominals">>])

KneeBridge ==
    Dict([id |-> "Knee_Bridge", name |-> "Knee Bridge", equipment |-> "Body Only",
          category |-> "Plyometrics", primaryMuscles |-> <<"glutes">>])

ServePool ==
    <<BarbellBackSquat, GentleHamstringStretch, WallSlide, GentleCalfStretch,
      LegPress, SeatedTwist, KneeBridge>>

MaxCatalog == 3

ServeRaws == SubListsUpTo(ServePool, MaxCatalog)

ServeProfiles ==
    {[pain_level |-> JInt(p[1]), mobility_level |-> JInt(p[2]), condition |-> c] :
        p \in {<<2, 8>>, <<7, 4>>, <<9, 3>>}, c \in {"knee", "hamstring"}}

ServeRequests ==
    ServeProfiles
    \cup {d @@ [limit |-> l] : d \in ServeProfiles, l \in {0 - 1, 0, 1, 2}}
    \cup {[pain_level |-> JInt(p), mobility_level |-> JInt(m), condition |-> "knee"] :
            p \in {1, 5, 10}, m \in {1, 6, 10}}

InitServe == \E raw \in ServeRaws : Constructed(raw)

NextServe ==
    \/ Receive(Routes, ServeRequests)
    \/ FilterStep
    \/ ScoreFiltered
    \/ Recommend
    \/ Respond
    \/ Return

SpecServe == InitServe /\ [][NextServe]_vars

(***************************************************************************)
(* calculate_intensity called on its own, and called again on the same     *)
(* exercise, on exercises drawn from a bounded set.                        *)
(***************************************************************************)
IntensityNames ==
    {"Jump Squat", "Plyometric Step-Up", "Barbell Back Squat", "PUSH Up",
     "Side Plank", "Slow Walk", "Gentle Hamstring Stretch", "Restful Stretch",
     "Passive Recovery", "Wrestler Bridge", "Wall Slide"}

IntensityCategories ==
    {"strength", "Powerlifting", "cardio", "olympic weightlifting",
     "stretching", "Mobility", "plyometrics", "", None}

IntensityExercises ==
    {Exercise("x", n, None, l, None, None, <<>>, <<>>, <<>>, c, <<>>) :
        n \in IntensityNames, l \in ScoreLevels, c \in IntensityCategories}

MaxCalls == 2

InitIntensity ==
    /\ heap = <<>>
    /\ exercises = 0
    /\ exercise_vectors = <<>>
    /\ loader = [pc |-> "idle"]
    /\ req = [pc |-> "idle"]
    /\ \E ex \in IntensityExercises :
           call = [op |-> "calculate_intensity", pc |-> "called",
                   exercise |-> ex, calls |-> 0, results |-> <<>>]

\* the call returns its tier
Classify ==
    /\ call.pc = "called"
    /\ call' = [call EXCEPT !.pc = "returned",
                            !.calls = @ + 1,
                            !.results = Append(@, calculate_intensity(call.exercise))]
    /\ UNCHANGED <<heap, exercises, exercise_vectors, loader, req>>

\* the function is called once more on the same exercise
ClassifyAgain ==
    /\ call.pc = "returned"
    /\ call.calls < MaxCalls
    /\ call' = [call EXCEPT !.pc = "called"]
    /\ UNCHANGED <<heap, exercises, exercise_vectors, loader, req>>

NextIntensity == Classify \/ ClassifyAgain

SpecIntensity == InitIntensity /\ [][NextIntensity]_vars

(***************************************************************************)
(* The claims.                                                             *)
(***************************************************************************)
Answered == req.pc = "done" /\ req.response.status = 200

InScale(n) == MinLevel <= n /\ n <= MaxLevel

\* C1: for a profile with pain_level and mobility_level in 1..10, no entry
\* that get_recommendations or get_stretching_recommendations returns has
\* suitability 'contraindicated'.
C1_NoContraindicatedReturned ==
    (Answered /\ InScale(req.user.pain_level) /\ InScale(req.user.mobility_level))
    => \A i \in 1..Len(req.response.recommendations) :
           req.response.recommendations[i].suitability # "contraindicated"

\* a request was answered with recommendations after a contraindicated
\* exercise had been scored
C1_Witness ==
    /\ Answered
    /\ InScale(req.user.pain_level) /\ InScale(req.user.mobility_level)
    /\ req.response.recommendations # <<>>
    /\ \E i \in 1..Len(req.scored_exercises) :
           req.scored_exercises[i].suitability = "contraindicated"

\* C2: get_recommendations returns at most limit entries, whatever integer
\* limit the /recommendations handler forwards (none when limit is 0 or
\* negative).
C2_AtMostLimit ==
    (Answered /\ req.route = "/recommendations")
    => Len(req.response.recommendations) <= (IF req.limit < 0 THEN 0 ELSE req.limit)

\* the place of an exercise in a list of exercises (0 when it is not there)
Place(ex, exs) ==
    IF \E j \in 1..Len(exs) : exs[j] = ex
    THEN CHOOSE j \in 1..Len(exs) : exs[j] = ex
    ELSE 0

\* a comes before b in the order "score descending, then as in pt"
Before(a, b, pt) ==
    \/ ~ FGe(b.score, a.score)
    \/ (a.score = b.score /\ Place(a.exercise, pt) < Place(b.exercise, pt))

\* C3: the list get_recommendations returns is ordered by non-increasing
\* score, entries of equal score keep the order of their exercises in the
\* output of filter_pt_relevant, and the list is exactly the first limit
\* entries of that ordering of all non-contraindicated scored exercises.
C3_SortedStableFirstLimit ==
    (Answered /\ req.route = "/recommendations")
    => LET recs == req.response.recommendations
           safe == SelectSeq(req.scored_exercises,
                             LAMBDA s : s.suitability # "contraindicated")
           want == IF req.limit < 0 THEN 0
                   ELSE IF req.limit < Len(safe) THEN req.limit ELSE Len(safe)
       IN  /\ \A i, j \in 1..Len(recs) :
                  i < j => Before(recs[i], recs[j], req.pt_exercises)
           /\ Len(recs) = want
           /\ \A i \in 1..Len(recs) : \E k \in 1..Len(safe) : safe[k] = recs[i]
           /\ \A k \in 1..Len(safe) :
                  \/ \E i \in 1..Len(recs) : recs[i] = safe[k]
                  \/ \A i \in 1..Len(recs) : Before(recs[i], safe[k], req.pt_exercises)

Returned == call.pc = "returned"

\* C4: for a profile with pain_level and mobility_level in 1..10,
\* calculate_recommendation_score returns a score in [0,1] and the label the
\* thresholds give for that returned score (excellent iff >= 0.9, good iff
\* in [0.7, 0.9), moderate iff in [0.5, 0.7), poor iff in [0.3, 0.5),
\* contraindicated iff < 0.3).
C4_LabelOfReturnedScore ==
    (Returned /\ InScale(call.user.pain_level) /\ InScale(call.user.mobility_level))
    => /\ FGe(call.result.score, F0_0)
       /\ FGe(F1_0, call.result.score)
       /\ call.result.suitability =
            (IF FGe(call.result.score, Lit(9, 10)) THEN "excellent"
             ELSE IF FGe(call.result.score, Lit(7, 10)) THEN "good"
             ELSE IF FGe(call.result.score, Lit(5, 10)) THEN "moderate"
             ELSE IF FGe(call.result.score, Lit(3, 10)) THEN "poor"
             ELSE "contraindicated")

C5_Exercise ==
    Exercise("x", "Gentle Hamstring Stretch", None, "beginner", None, None,
             <<"hamstrings">>, <<>>, <<>>, "stretching", <<>>)

C5_User == UserProfile(7, 4, "hamstring", <<>>)

C5_Scenario == Returned /\ call.exercise = C5_Exercise /\ call.user = C5_User

\* what the scenario gives but for the mobility sub-score and the total
C5_Common ==
    /\ calculate_intensity(call.exercise) = "low"
    /\ PainPart(call.exercise, call.user).score = Lit(1, 1)
    /\ ConditionPart(call.exercise, call.user).score = Lit(1, 1)
    /\ BenefitPart(call.exercise).score = Lit(1, 1)
    /\ call.result.suitability = "excellent"

\* C5 as the specification has it: scoring 'Gentle Hamstring Stretch'
\* (stretching, no equipment, hamstrings) for pain 7, mobility 4, condition
\* 'hamstring' gives intensity low, pain 1.0, mobility 0.8 (in range, not
\* optimal), condition 1.0, benefit 1.0, total 0.94, 'excellent'.
C5_Original ==
    C5_Scenario
    => /\ C5_Common
       /\ MobilityPart(call.exercise, call.user).score = Lit(8, 10)
       /\ call.result.score = Lit(94, 100)

\* C5 amended: the same scenario gives intensity low, pain 1.0, mobility 1.0
\* (4 is in the optimal set 2..5 of the stretching range), condition 1.0,
\* benefit 1.0, total 1.0, 'excellent'.
C5_Amended ==
    C5_Scenario
    => /\ C5_Common
       /\ MobilityPart(call.exercise, call.user).score = Lit(1, 1)
       /\ Len(MobilityPart(call.exercise, call.user).reasons) = 2
       /\ call.result.score = Lit(1, 1)

C5_Witness == C5_Scenario

C6_Exercise == ParseExercise(BarbellBackSquat.items)

C6_User == UserProfile(9, 3, "knee", <<>>)

\* get_recommendations scored the squat for the scenario's profile
C6_Scenario ==
    /\ req.pc \in {"scored", "count", "done"}
    /\ req.route = "/recommendations"
    /\ req.user = C6_User
    /\ \E i \in 1..Len(req.scored_exercises) :
           req.scored_exercises[i].exercise = C6_Exercise

C6_Scored ==
    req.scored_exercises[CHOOSE i \in 1..Len(req.scored_exercises) :
                             req.scored_exercises[i].exercise = C6_Exercise]

\* what the scenario gives but for the total
C6_Common ==
    /\ calculate_intensity(C6_Exercise) = "high"
    /\ PainPart(C6_Exercise, req.user).score = Lit(1, 10)
    /\ MobilityPart(C6_Exercise, req.user).score = Lit(1, 10)
    /\ ConditionPart(C6_Exercise, req.user).score = Lit(5, 10)
    /\ C6_Scored.warnings =
         <<"May not be suitable for your pain level (9/10)",
           "May be too challenging for your mobility level (3/10)">>
    /\ C6_Scored.suitability = "contraindicated"
    /\ req.pc \in {"count", "done"}
       => \A i \in 1..Len(req.recommendations) :
              req.recommendations[i].exercise # C6_Exercise

\* C6 as the specification has it: scoring 'Barbell Back Squat' (strength,
\* barbell, no muscles) for pain 9, mobility 3, condition 'knee' gives
\* intensity high, pain 0.1 and mobility 0.1 each with a warning, condition
\* 0.5, a total between 0.12 and 0.2, 'contraindicated', and the exercise is
\* absent from the result of get_recommendations.
C6_Original ==
    C6_Scenario
    => /\ C6_Common
       /\ FGe(C6_Scored.score, Lit(12, 100))
       /\ FGe(Lit(2, 10), C6_Scored.score)

\* C6 amended: the same, with a total of 0.23 (the strength category adds
\* three benefits, a benefit term of 0.06 on top of 0.17).
C6_Amended ==
    C6_Scenario
    => /\ C6_Common
       /\ Len(get_therapeutic_benefits(C6_Exercise)) = 3
       /\ C6_Scored.score = Lit(23, 100)

\* the scenario's request was answered, with other exercises recommended
C6_Witness ==
    /\ C6_Scenario
    /\ Answered
    /\ req.response.recommendations # <<>>

\* the engine was called for the request (the handler passed its checks)
CoreInvoked ==
    \/ req.pc \in {"filter", "scored", "count"}
    \/ (req.pc = "done" /\ "user" \in DOMAIN req)

ValidRequest(data) ==
    /\ {"pain_level", "mobility_level", "condition"} \subseteq DOMAIN data
    /\ ~ IntRaises(data.pain_level) /\ InScale(ToInt(data.pain_level))
    /\ ~ IntRaises(data.mobility_level) /\ InScale(ToInt(data.mobility_level))

\* C7: on /recommendations and on /stretching, a request whose pain_level or
\* mobility_level is outside 1..10, or that lacks pain_level, mobility_level
\* or condition, is answered with an error before any scoring operation of
\* the engine is called with that profile.
C7_InvalidRejectedBeforeCore ==
    (req.pc # "idle" /\ ~ ValidRequest(req.data))
    => /\ ~ CoreInvoked
       /\ req.pc = "done" /\ "error" \in DOMAIN req.response

IsWellFormed(ex) ==
    ex.type = "dict" /\ "id" \in DOMAIN ex.items /\ "name" \in DOMAIN ex.items

\* C8: load_exercises skips every malformed raw entry (no 'id', no 'name',
\* or no key/value record at all) with a logged warning: no entry aborts the
\* load, and after it the catalog holds exactly the well-formed entries, in
\* source order.
C8_MalformedSkipped ==
    /\ ~ (loader.pc = "failed" /\ loader.error = "entry")
    /\ loader.pc = "done"
       => LET good == SelectSeq(loader.raw, IsWellFormed)
          IN  /\ heap[exercises].items =
                   [i \in 1..Len(good) |-> ParseExercise(good[i].items)]
              /\ Len(loader.warnings) = Len(loader.raw) - Len(good)

\* C9: a valid request whose filter_pt_relevant runs while load_exercises runs
\* again never observes a partially updated catalog: each loop over the
\* catalog sees a complete snapshot, the old one or the new one.
C9_ReadsSeeWholeCatalog ==
    ("whole" \in DOMAIN req /\ ValidRequest(req.data)) => req.whole

HasNo(r, key) == key \notin DOMAIN r \/ r[key] = None

\* C10: for a catalog load_exercises produced, filter_pt_relevant returns
\* every exercise whose source record has no category when its equipment is
\* absent or allowed and not denied, and every exercise whose source record
\* has no equipment when its category is absent or allowed; it returns no
\* exercise whose equipment is denied.
C10_MissingFieldNotExcluded ==
    (req.pc = "scored" /\ loader.pc = "done")
    => \A i \in 1..Len(loader.raw) :
         IsWellFormed(loader.raw[i]) =>
           LET r        == loader.raw[i].items
               returned == \E j \in 1..Len(req.pt_exercises) :
                               req.pt_exercises[j] = ParseExercise(r)
               eq_ok    == \/ HasNo(r, "equipment")
                           \/ /\ Lower(r.equipment) \notin excluded_equipment
                              /\ Lower(r.equipment) \in pt_equipment
               cat_ok   == \/ HasNo(r, "category")
                           \/ Lower(r.category) \in pt_categories
           IN  /\ (HasNo(r, "category") /\ eq_ok) => returned
               /\ (HasNo(r, "equipment") /\ cat_ok) => returned
               /\ (~ HasNo(r, "equipment")
                   /\ Lower(r.equipment) \in excluded_equipment) => ~ returned

\* the tiers and the checks of the classifier, in the order of the claim
C11_Tiers == {"very-low", "low", "moderate", "high", "very-high"}

C11_Checks ==
    <<[on |-> "name", words |-> {"jump", "explosive", "plyometric", "sprint", "burpee"},
       tier |-> "very-high"],
      [on |-> "name", words |-> {"squat", "deadlift", "press", "pull", "push",
                                 "weight", "heavy"},
       tier |-> "high"],
      [on |-> "category", words |-> {"strength", "powerlifting"}, tier |-> "high"],
      [on |-> "name", words |-> {"bridge", "plank", "lunge", "step", "walk"},
       tier |-> "moderate"],
      [on |-> "category", words |-> {"cardio", "olympic weightlifting"},
       tier |-> "moderate"],
      [on |-> "name", words |-> {"stretch", "gentle", "slow", "breathing"},
       tier |-> "low"],
      [on |-> "category", words |-> {"stretching", "flexibility", "mobility"},
       tier |-> "low"],
      [on |-> "name", words |-> {"passive", "rest", "meditation", "mindfulness"},
       tier |-> "very-low"]>>

C11_Matches(k, ex) ==
    IF C11_Checks[k].on = "name"
    THEN \E w \in C11_Checks[k].words : Contains(Lower(ex.name), w)
    ELSE ex.category # None /\ Lower(ex.category) \in C11_Checks[k].words

C11_Matching(ex) == {k \in 1..Len(C11_Checks) : C11_Matches(k, ex)}

C11_FirstMatch(ex) ==
    IF C11_Matching(ex) # {}
    THEN C11_Checks[CHOOSE k \in C11_Matching(ex) :
                        \A j \in C11_Matching(ex) : k <= j].tier
    ELSE IF ex.level = "beginner" THEN "low"
    ELSE IF ex.level = "intermediate" THEN "moderate"
    ELSE IF ex.level = "advanced" THEN "high"
    ELSE IF ex.level = "expert" THEN "very-high"
    ELSE "moderate"

\* C11: for every exercise, calculate_intensity returns exactly one of the
\* five tiers very-low, low, moderate, high, very-high, chosen by the first
\* match in the order very-high name keywords, high name keywords, high
\* categories, moderate name keywords, moderate categories, low name
\* keywords, low categories, very-low name keywords, then the level map
\* (anything but the four levels gives moderate); called again on the same
\* exercise it returns the same tier.
C11_FirstMatchTier ==
    (call.op = "calculate_intensity" /\ call.pc = "returned")
    => \A i \in 1..Len(call.results) :
           /\ call.results[i] \in C11_Tiers
           /\ call.results[i] = C11_FirstMatch(call.exercise)
           /\ call.results[i] = call.results[1]

\* the function returned twice for an exercise whose name matches a check
\* that comes after the check its category matches, of another tier
C11_Witness ==
    /\ call.op = "calculate_intensity" /\ call.pc = "returned"
    /\ Len(call.results) >= 2
    /\ \E j, k \in C11_Matching(call.exercise) :
           /\ j < k
           /\ C11_Checks[j].on = "category" /\ C11_Checks[k].on = "name"
           /\ C11_Checks[j].tier # C11_Checks[k].tier
           /\ \A i \in C11_Matching(call.exercise) : j <= i

\* the user's level lies outside the exercise's suitability range
C12_PainOutside(ex, user) ==
    LET r == get_pain_suitability(ex, user.pain_level)
    IN  user.pain_level < r.min \/ user.pain_level > r.max

C12_MobilityOutside(ex, user) ==
    LET r == get_mobility_suitability(ex, user.mobility_level)
    IN  user.mobility_level < r.min \/ user.mobility_level > r.max

C12_PainWarning(user) ==
    "May not be suitable for your pain level (" \o ToString(user.pain_level) \o "/10)"

\* get_recommendations has scored the filtered exercises of the request
C12_HasScored ==
    req.pc \in {"scored", "count", "done"} /\ "scored_exercises" \in DOMAIN req

\* C12: calculate_recommendation_score labels an exercise 'contraindicated'
\* only if both the user's pain_level and the user's mobility_level lie
\* outside the exercise's suitability ranges; an exercise whose pain range
\* excludes the user's pain_level (pain warning attached) but whose mobility
\* range includes the user's mobility_level is never contraindicated, and
\* get_recommendations returns it when limit leaves room for every scored
\* exercise.
C12_ContraindicatedOnlyIfBothOutside ==
    C12_HasScored
    => \A i \in 1..Len(req.scored_exercises) :
         LET s   == req.scored_exercises[i]
             out == C12_PainOutside(s.exercise, req.user)
             in  == ~ C12_MobilityOutside(s.exercise, req.user)
         IN  /\ s.suitability = "contraindicated"
                => (out /\ C12_MobilityOutside(s.exercise, req.user))
             /\ (out /\ in)
                => /\ s.warnings = <<C12_PainWarning(req.user)>>
                   /\ s.suitability # "contraindicated"
                   /\ (Answered /\ req.route = "/recommendations"
                       /\ req.limit >= Len(req.scored_exercises))
                      => \E j \in 1..Len(req.response.recommendations) :
                             req.response.recommendations[j] = s

\* /recommendations answered with an exercise that carries the pain warning,
\* the user's pain_level outside its pain range and the mobility_level inside
\* its mobility range, after another exercise was found contraindicated
C12_Witness ==
    /\ Answered
    /\ req.route = "/recommendations"
    /\ \E j \in 1..Len(req.response.recommendations) :
           LET s == req.response.recommendations[j]
           IN  /\ C12_PainOutside(s.exercise, req.user)
               /\ ~ C12_MobilityOutside(s.exercise, req.user)
               /\ s.warnings = <<C12_PainWarning(req.user)>>
    /\ \E i \in 1..Len(req.scored_exercises) :
           req.scored_exercises[i].suitability = "contraindicated"

====
